---- MODULE Spec2Model ----
(***************************************************************************)
(* Model of app.py of video-to-faces: the SQLite registry of videos and    *)
(* faces (init_db), the ingest handler process_video, the curation         *)
(* handlers rename_face, merge_faces, clear_database and the read          *)
(* get_all_data.                                                           *)
(*                                                                         *)
(* Text is modelled as a tuple of one-character strings, so that parsing   *)
(* and formatting are computed and not assumed.  A nullable column holds   *)
(* NULL (the empty tuple) or Some(v) (a one-element tuple).                *)
(***************************************************************************)
EXTENDS Integers, Sequences, FiniteSets, TLC

----------------------------------------------------------------------------
(* Bounds of the model *)

\* largest videos.id the model lets process_video assign
MaxVideoId == 2

\* largest faces.id the model lets process_video assign
MaxFaceId == 2

----------------------------------------------------------------------------
(* Text helpers *)

DigitChars == <<"0", "1", "2", "3", "4", "5", "6", "7", "8", "9">>

IsDigit(c) == \E i \in 1..10 : DigitChars[i] = c

DigitVal(c) == (CHOOSE i \in 1..10 : DigitChars[i] = c) - 1

RECURSIVE NatToStr(_)
NatToStr(n) ==
    IF n < 10 THEN <<DigitChars[n + 1]>>
    ELSE NatToStr(n \div 10) \o <<DigitChars[(n % 10) + 1]>>

\* str(n) / SQLite's cast of an INTEGER to TEXT
IntToStr(n) == IF n < 0 THEN <<"-">> \o NatToStr(0 - n) ELSE NatToStr(n)

RECURSIVE LStrip(_)
LStrip(s) == IF s # <<>> /\ Head(s) = " " THEN LStrip(Tail(s)) ELSE s

RECURSIVE RStrip(_)
RStrip(s) ==
    IF s # <<>> /\ s[Len(s)] = " " THEN RStrip(SubSeq(s, 1, Len(s) - 1)) ELSE s

RECURSIVE DigitsVal(_)
\* value of a digit string in which single underscores may separate digits
DigitsVal(s) ==
    IF s = <<>> THEN 0
    ELSE IF s[Len(s)] = "_" THEN DigitsVal(SubSeq(s, 1, Len(s) - 1))
    ELSE 10 * DigitsVal(SubSeq(s, 1, Len(s) - 1)) + DigitVal(s[Len(s)])

IsDigitString(s) ==
    /\ s # <<>>
    /\ IsDigit(s[1])
    /\ IsDigit(s[Len(s)])
    /\ \A i \in 1..Len(s) : IsDigit(s[i]) \/ s[i] = "_"
    /\ \A i \in 1..(Len(s) - 1) : ~(s[i] = "_" /\ s[i + 1] = "_")

\* Python int(text): [ok |-> FALSE] stands for ValueError
ParseInt(text) ==
    LET s    == RStrip(LStrip(text))
        sign == IF s # <<>> /\ s[1] \in {"+", "-"} THEN s[1] ELSE ""
        body == IF sign = "" THEN s ELSE Tail(s)
    IN  IF IsDigitString(body)
        THEN [ok |-> TRUE,
              val |-> IF sign = "-" THEN 0 - DigitsVal(body) ELSE DigitsVal(body)]
        ELSE [ok |-> FALSE, val |-> 0]

RECURSIVE SplitFirst(_, _)
\* text.split(sep)[0]: the part of text before the first sep
SplitFirst(s, sep) ==
    IF s = <<>> \/ Head(s) = sep THEN <<>>
    ELSE <<Head(s)>> \o SplitFirst(Tail(s), sep)

EndsWith(s, suffix) ==
    /\ Len(s) >= Len(suffix)
    /\ SubSeq(s, Len(s) - Len(suffix) + 1, Len(s)) = suffix

RECURSIVE Gcd(_, _)
Gcd(a, b) == IF b = 0 THEN a ELSE Gcd(b, a % b)

----------------------------------------------------------------------------
(* Nullable values and Python truthiness *)

NULL == <<>>

Some(v) == <<v>>

\* Python "not x" is False: x is neither None, nor 0, nor empty
TruthyId(face_id) == face_id # NULL /\ face_id[1] # 0

\* for a text argument: "" is falsy
TruthyText(text) == text # <<>>

----------------------------------------------------------------------------
(* Paths: a path is a tuple of components, each a text; "/" roots it *)

RootDir == <<"/">>

\* the working directory of the server process
Cwd == <<RootDir, <<"a", "p", "p">>>>

output_dir == <<"f", "a", "c", "e", "s", "_", "o", "u", "t", "p", "u", "t">>

Basename(path) == path[Len(path)]

Dirname(path) == SubSeq(path, 1, Len(path) - 1)

Abspath(path) == IF path[1] = RootDir THEN path ELSE Cwd \o path

JpgSuffix == <<".", "j", "p", "g">>

\* glob.glob(output_dir + "/**/*.jpg", recursive=True): the files under
\* output_dir whose name ends in .jpg and does not start with a dot
GlobJpg(files) ==
    {p \in files : /\ p[1] = output_dir
                   /\ EndsWith(Basename(p), JpgSuffix)
                   /\ Basename(p)[1] # "."}

\* the orders in which glob may list a set of paths
Orders(S) ==
    {q \in [1..Cardinality(S) -> S] : \A i, j \in DOMAIN q : i # j => q[i] # q[j]}

----------------------------------------------------------------------------
(* Inputs *)

\* files the extractor may deposit: root/{clusterToken}/{frameNumber}_{suffix}.jpg,
\* one with a non-numeric cluster token, one with a non-numeric frame token,
\* and one that is no .jpg
FileA == <<output_dir, <<"0">>, <<"1", "_", "0", ".", "j", "p", "g">>>>

FileB == <<output_dir, <<"x">>, <<"2", "_", "1", ".", "j", "p", "g">>>>

FileBad == <<output_dir, <<"1">>, <<"f", "_", "0", ".", "j", "p", "g">>>>

FilePng == <<output_dir, <<"0">>, <<"3", ".", "p", "n", "g">>>>

\* what one run of the extractor may deposit
ExtractorOutputs == {{FileA, FilePng}, {FileA, FileB}, {FileBad}}

\* uploaded videos with the frame rate the probe reports for them
VideoInputs ==
    { [video_path |-> <<RootDir, <<"t", "m", "p">>, <<"a", ".", "m", "p", "4">>>>,
       fps |-> 2],
      [video_path |-> <<<<"A", "l", "l">>>>, fps |-> 0] }

\* values datetime.now() may format to
Dates == {1, 2}

\* the New Name / Unified Name textbox: empty, or a name
NameInputs == {<<>>, <<"a">>, <<"B">>}

----------------------------------------------------------------------------
(* The database *)

VARIABLES
    db,     \* the committed content of faces_db.sqlite
    tx,     \* the open write transaction: NULL, or Some(its view of the database)
    disk,   \* the files under the working directory
    pv,     \* process_video: its position and locals (one call runs at a time)
    last,   \* the outcome of the latest handler that finished
    face_display,   \* the rows last rendered into the face_display component
    merge_state,    \* the merge selection of the session (gr.State)
    wr,     \* the clear or merge call taken statement by statement: its position
    rw      \* rename_face_wrapper between its resolution and its UPDATE

\* the variables of the registry and of process_video
core == <<db, tx, disk, pv, last>>

\* the variables of the session and of the handlers around the registry
session == <<face_display, merge_state, wr, rw>>

vars == <<db, tx, disk, pv, last, face_display, merge_state, wr, rw>>

\* init_db on a fresh file: two empty tables, AUTOINCREMENT counters at 0
EmptyDb ==
    [videos |-> <<>>, faces |-> <<>>, seq |-> [videos |-> 0, faces |-> 0]]

RECURSIVE MaxId(_)
MaxId(rows) ==
    IF rows = <<>> THEN 0
    ELSE LET m == MaxId(Tail(rows))
         IN  IF Head(rows).id > m THEN Head(rows).id ELSE m

\* a variant of NextRowId: INTEGER PRIMARY KEY without AUTOINCREMENT, one more
\* than the largest rowid now in the table
NextRowIdNoAutoincrement(rows, seq) == MaxId(rows) + 1

\* INTEGER PRIMARY KEY AUTOINCREMENT: one more than the largest rowid the
\* table ever held
NextRowId(rows, seq) == (IF MaxId(rows) > seq THEN MaxId(rows) ELSE seq) + 1

----------------------------------------------------------------------------
(* process_video *)

\* frame_number / fps as an exact fraction <<numerator, denominator>>
Quotient(n, d) ==
    LET a == IF n < 0 THEN 0 - n ELSE n
        g == Gcd(a, d)
    IN  <<n \div g, d \div g>>

\* the cluster token is the name of the image's directory
ClusterToken(image_path) == Basename(Dirname(image_path))

\* os.path.basename(image_path).split('.')[0].split('_')[0]
FrameToken(image_path) == SplitFirst(SplitFirst(Basename(image_path), "."), "_")

\* a variant of ClusterIdOf: the fallback is 0
ClusterIdOfFallbackZero(image_path) == ParseInt(ClusterToken(image_path)).val

\* int(...) of the cluster token, -1 on ValueError
ClusterIdOf(image_path) ==
    LET c == ParseInt(ClusterToken(image_path))
    IN  IF c.ok THEN c.val ELSE -1

\* a variant of TimestampOf: the division is the integer division
TimestampOfFloorDiv(frame_number, fps) ==
    IF fps > 0 THEN <<frame_number \div fps, 1>> ELSE <<0, 1>>

\* frame_number / fps if fps > 0 else 0
TimestampOf(frame_number, fps) ==
    IF fps > 0 THEN Quotient(frame_number, fps) ELSE <<0, 1>>

\* the row of INSERT INTO faces for one image; person_name is not given
FaceRow(id, video_id, image_path, fps) ==
    LET frame_number == ParseInt(FrameToken(image_path)).val
    IN  [id                |-> id,
         video_id          |-> video_id,
         frame_number      |-> frame_number,
         timestamp_seconds |-> TimestampOf(frame_number, fps),
         face_image_path   |-> Abspath(image_path),
         person_name       |-> NULL,
         cluster_id        |-> ClusterIdOf(image_path)]

\* the row of INSERT INTO videos
VideoRow(id, video_path, upload_date, fps) ==
    [id          |-> id,
     filename    |-> Basename(video_path),
     filepath    |-> Abspath(video_path),
     upload_date |-> upload_date,
     fps         |-> fps]

InsertVideoRow(d, video_path, upload_date, fps) ==
    LET id == NextRowId(d.videos, d.seq.videos)
    IN  [d EXCEPT !.videos = Append(@, VideoRow(id, video_path, upload_date, fps)),
                  !.seq.videos = id]

\* a variant of InsertFaceRow: the face row is keyed by its frame number
InsertFaceRowKeyedByFrame(d, video_id, image_path, fps) ==
    LET row == FaceRow(0, video_id, image_path, fps)
    IN  [d EXCEPT !.faces = Append(@, [row EXCEPT !.id = row.frame_number]),
                  !.seq.faces = NextRowId(d.faces, d.seq.faces)]

InsertFaceRow(d, video_id, image_path, fps) ==
    LET id == NextRowId(d.faces, d.seq.faces)
    IN  [d EXCEPT !.faces = Append(@, FaceRow(id, video_id, image_path, fps)),
                  !.seq.faces = id]

\* a variant of LastRowId: the number of video rows taken for the new row's id
LastRowIdAsRowCount(d) == Len(d.videos)

\* cursor.lastrowid after the INSERT INTO videos
LastRowId(d) == d.videos[Len(d.videos)].id

\* a variant of ClosedWithoutCommit: the pending rows are committed on the way out
ClosedCommitting(committed, view) == view

\* the connection is dropped without commit: its transaction is rolled back
ClosedWithoutCommit(committed, view) == committed

\* conn.commit()
Committed(committed, view) == view

IdlePv ==
    [pc |-> "idle", video_path |-> <<>>, fps |-> 0, video_id |-> 0,
     face_images |-> <<>>, i |-> 0]

Outcome(op, result, rowcount) == [op |-> op, result |-> result, rowcount |-> rowcount]

\* a variant of Extract: every call starts from an emptied output root
ExtractIntoFreshRoot(v, deposited) ==
    /\ pv.pc = "idle"
    /\ db.seq.videos < MaxVideoId
    /\ db.seq.faces + Cardinality(GlobJpg(disk \cup deposited)) <= MaxFaceId
    /\ disk' = deposited
    /\ pv' = [IdlePv EXCEPT !.pc = "extracted", !.video_path = v.video_path,
                            !.fps = v.fps]
    /\ UNCHANGED <<db, tx, last>>

\* lines 100-109: make the output root, probe the frame rate, run the extractor
Extract(v, deposited) ==
    /\ pv.pc = "idle"
    /\ db.seq.videos < MaxVideoId
    /\ db.seq.faces + Cardinality(GlobJpg(disk \cup deposited)) <= MaxFaceId
    /\ disk' = disk \cup deposited
    /\ pv' = [IdlePv EXCEPT !.pc = "extracted", !.video_path = v.video_path,
                            !.fps = v.fps]
    /\ UNCHANGED <<db, tx, last>>

\* lines 111-117: connect, INSERT INTO videos (which begins the transaction)
InsertVideo(now) ==
    /\ pv.pc = "extracted"
    /\ tx = NULL
    /\ LET view == InsertVideoRow(db, pv.video_path, now, pv.fps)
       IN  /\ tx' = Some(view)
           /\ pv' = [pv EXCEPT !.pc = "inserted", !.video_id = LastRowId(view)]
    /\ UNCHANGED <<db, disk, last>>

\* line 119: enumerate the images under the output root
Glob(listing) ==
    /\ pv.pc = "inserted"
    /\ listing \in Orders(GlobJpg(disk))
    /\ pv' = [pv EXCEPT !.pc = "loop", !.face_images = listing, !.i = 1]
    /\ UNCHANGED <<db, tx, disk, last>>

\* lines 120-132, one iteration whose frame number parses
InsertFace ==
    /\ pv.pc = "loop"
    /\ pv.i <= Len(pv.face_images)
    /\ ParseInt(FrameToken(pv.face_images[pv.i])).ok
    /\ tx' = Some(InsertFaceRow(tx[1], pv.video_id, pv.face_images[pv.i], pv.fps))
    /\ pv' = [pv EXCEPT !.i = @ + 1]
    /\ UNCHANGED <<db, disk, last>>

\* line 128 raises ValueError: the handler ends without commit
ParseFail ==
    /\ pv.pc = "loop"
    /\ pv.i <= Len(pv.face_images)
    /\ ~ParseInt(FrameToken(pv.face_images[pv.i])).ok
    /\ db' = ClosedWithoutCommit(db, tx[1])
    /\ tx' = NULL
    /\ pv' = IdlePv
    /\ last' = Outcome("process_video", "ValueError", NULL)
    /\ UNCHANGED disk

\* lines 134-138: commit, then re-read for the display
Commit ==
    /\ pv.pc = "loop"
    /\ pv.i > Len(pv.face_images)
    /\ db' = Committed(db, tx[1])
    /\ tx' = NULL
    /\ pv' = IdlePv
    /\ last' = Outcome("process_video", "returned", NULL)
    /\ UNCHANGED disk

----------------------------------------------------------------------------
(* rename_face, merge_faces, clear_database: each one statement and a commit *)

\* face ids a caller may pass: every id the bounds let exist, 0, and one beyond
FaceIdInputs == 0..(MaxFaceId + 1)

\* what rename_face_wrapper may pass as face_id: None when the resolver finds
\* no face, else an id
RenameIdInputs == {NULL} \cup {Some(n) : n \in FaceIdInputs}

\* the selections a caller may pass to merge_faces
MergeInputs == SUBSET (FaceIdInputs \ {0})

\* cursor.rowcount of UPDATE ... WHERE id = / id IN: the rows the WHERE matches
RowCount(rows, ids) == Cardinality({i \in DOMAIN rows : rows[i].id \in ids})

\* a variant of RenameUpdate: the UPDATE has no WHERE clause
RenameUpdateNoWhere(rows, face_id, new_name) ==
    [i \in DOMAIN rows |-> [rows[i] EXCEPT !.person_name = Some(new_name)]]

\* UPDATE faces SET person_name = ? WHERE id = ?
RenameUpdate(rows, face_id, new_name) ==
    [i \in DOMAIN rows |->
        IF rows[i].id = face_id
        THEN [rows[i] EXCEPT !.person_name = Some(new_name)]
        ELSE rows[i]]

\* the smallest id of a non-empty selection
MinId(face_ids) == CHOOSE m \in face_ids : \A n \in face_ids : m <= n

\* a variant of MergeUpdate: only the first selected face is renamed
MergeUpdateFirstOnly(rows, face_ids, new_name) ==
    [i \in DOMAIN rows |->
        IF rows[i].id = MinId(face_ids)
        THEN [rows[i] EXCEPT !.person_name = Some(new_name)]
        ELSE rows[i]]

\* a variant of MergeUpdate: the merged faces also take one cluster_id
MergeUpdateRecluster(rows, face_ids, new_name) ==
    [i \in DOMAIN rows |->
        IF rows[i].id \in face_ids
        THEN [rows[i] EXCEPT !.person_name = Some(new_name), !.cluster_id = -1]
        ELSE rows[i]]

\* UPDATE faces SET person_name = ? WHERE id IN (?, ...)
MergeUpdate(rows, face_ids, new_name) ==
    [i \in DOMAIN rows |->
        IF rows[i].id \in face_ids
        THEN [rows[i] EXCEPT !.person_name = Some(new_name)]
        ELSE rows[i]]

\* a variant of RenameRejects: only the face id is validated
RenameRejectsIdOnly(face_id, new_name) == ~TruthyId(face_id)

\* if not face_id or not new_name
RenameRejects(face_id, new_name) == ~TruthyId(face_id) \/ ~TruthyText(new_name)

\* if not face_ids or not new_name
MergeRejects(face_ids, new_name) == face_ids = {} \/ ~TruthyText(new_name)

\* a variant of RenameStatus: the message does not carry the count
RenameStatusNoCount(count) == "Updated face."

RenameStatus(count) == "Updated " \o ToString(count) \o " face."

MergeStatus(count) == "Merged " \o ToString(count) \o " faces."

\* The UPDATE needs the write lock of the database file: while process_video
\* holds it the statement waits, so the step is taken with no transaction open.
RenameFace(face_id, new_name) ==
    /\ IF RenameRejects(face_id, new_name)
       THEN /\ last' = Outcome("rename_face",
                               "Please select a face and enter a new name.", NULL)
            /\ UNCHANGED db
       ELSE LET count == RowCount(db.faces, {face_id[1]})
            IN  /\ tx = NULL
                /\ db' = [db EXCEPT !.faces = RenameUpdate(@, face_id[1], new_name)]
                /\ last' = Outcome("rename_face", RenameStatus(count), Some(count))
    /\ UNCHANGED <<tx, disk, pv>>

MergeFaces(face_ids, new_name) ==
    /\ IF MergeRejects(face_ids, new_name)
       THEN /\ last' = Outcome("merge_faces",
                               "Please select faces and enter a new name.", NULL)
            /\ UNCHANGED db
       ELSE LET count == RowCount(db.faces, face_ids)
            IN  /\ tx = NULL
                /\ db' = [db EXCEPT !.faces = MergeUpdate(@, face_ids, new_name)]
                /\ last' = Outcome("merge_faces", MergeStatus(count), Some(count))
    /\ UNCHANGED <<tx, disk, pv>>

\* a variant of DeleteFaces: the faces table is not cleared
DeleteNothing(rows) == rows

\* DELETE FROM faces
DeleteFaces(rows) == <<>>

\* DELETE FROM videos
DeleteVideos(rows) == <<>>

\* both DELETEs and the commit are one transaction
ClearDatabase ==
    /\ tx = NULL
    /\ db' = [db EXCEPT !.faces = DeleteFaces(@), !.videos = DeleteVideos(@)]
    /\ last' = Outcome("clear_database", "Database cleared.", NULL)
    /\ UNCHANGED <<tx, disk, pv>>

----------------------------------------------------------------------------
(* get_all_data *)

\* a variant of DisplayName: the fallback label carries the id of the face
DisplayNameByFaceId(f) ==
    IF f.person_name # NULL THEN f.person_name[1]
    ELSE <<"C", "l", "u", "s", "t", "e", "r", " ">> \o IntToStr(f.id)

\* COALESCE(f.person_name, 'Cluster ' || f.cluster_id)
DisplayName(f) ==
    IF f.person_name # NULL THEN f.person_name[1]
    ELSE <<"C", "l", "u", "s", "t", "e", "r", " ">> \o IntToStr(f.cluster_id)

RECURSIVE JoinVideos(_, _)
\* the result rows of one face: one per video row with v.id = f.video_id
JoinVideos(f, videos) ==
    IF videos = <<>> THEN <<>>
    ELSE (IF Head(videos).id = f.video_id
          THEN <<[face_id           |-> f.id,
                  face_image_path   |-> f.face_image_path,
                  video_filename    |-> Head(videos).filename,
                  video_filepath    |-> Head(videos).filepath,
                  timestamp_seconds |-> f.timestamp_seconds,
                  name              |-> DisplayName(f)]>>
          ELSE <<>>) \o JoinVideos(f, Tail(videos))

RECURSIVE GetAllData(_)
\* SELECT ... FROM faces f JOIN videos v ON f.video_id = v.id, in rowid order
GetAllData(d) ==
    IF d.faces = <<>> THEN <<>>
    ELSE JoinVideos(Head(d.faces), d.videos)
         \o GetAllData([d EXCEPT !.faces = Tail(@)])

----------------------------------------------------------------------------
(* The interface: the resolver, the filters and the handlers of the events *)

\* a read opens its own connection: it sees the committed tables
ReadViewUncommitted == IF tx # NULL THEN tx[1] ELSE db

ReadView == db

\* the content of an image file: the picture and its encoding
ImageBytes(image, encoding) == [image |-> image, encoding |-> encoding]

\* the copies the gallery hands back: a byte copy of FileA, a re-encoded copy
\* of FileA, and the path of a copy that has been swept from the cache
TmpCopy == <<RootDir, <<"t", "m", "p">>, <<"c">>>>

TmpReencoded == <<RootDir, <<"t", "m", "p">>, <<"r">>>>

TmpGone == <<RootDir, <<"t", "m", "p">>, <<"g">>>>

\* evt.value['image']['path'] / rename_state: a path, or None
PathInputs == {NULL, Some(TmpCopy), Some(TmpReencoded), Some(TmpGone)}

\* open(path, 'rb').read(): the bytes, or the exception open raises
OpenRead(files, path) ==
    IF path = NULL THEN [error |-> "TypeError", bytes |-> NULL]
    ELSE IF path[1] = TmpCopy
         THEN [error |-> "", bytes |-> Some(ImageBytes(FileA, "jpeg"))]
    ELSE IF path[1] = TmpReencoded
         THEN [error |-> "", bytes |-> Some(ImageBytes(FileA, "webp"))]
    ELSE IF \E p \in files : Abspath(p) = path[1]
         THEN [error |-> "",
               bytes |-> Some(ImageBytes(CHOOSE p \in files : Abspath(p) = path[1],
                                         "jpeg"))]
    ELSE [error |-> "FileNotFoundError", bytes |-> NULL]

RECURSIVE ScanRows(_, _, _, _)
\* for index, row in df.iterrows(): try ... except caught: continue
ScanRows(rows, files, path, caught) ==
    IF rows = <<>> THEN [raised |-> "", face_id |-> NULL]
    ELSE LET f1  == OpenRead(files, path)
             f2  == OpenRead(files, Some(Head(rows).face_image_path))
             err == IF f1.error # "" THEN f1.error ELSE f2.error
         IN  IF err # ""
             THEN (IF err \in caught
                   THEN ScanRows(Tail(rows), files, path, caught)
                   ELSE [raised |-> err, face_id |-> NULL])
             ELSE IF f1.bytes = f2.bytes
                  THEN [raised |-> "", face_id |-> Some(Head(rows).face_id)]
                  ELSE ScanRows(Tail(rows), files, path, caught)

\* a variant of GetFaceIdFromPath: only TypeError is caught
GetFaceIdFromPathCatchTypeError(d, files, path) ==
    ScanRows(GetAllData(d), files, path, {"TypeError"})

GetFaceIdFromPath(d, files, path) ==
    ScanRows(GetAllData(d), files, path, {"FileNotFoundError", "TypeError"})

\* re.IGNORECASE on the letters of the inputs
Lower(c) ==
    IF c = "A" THEN "a" ELSE IF c = "B" THEN "b" ELSE IF c = "C" THEN "c" ELSE c

\* re.search(pat, text, re.IGNORECASE) for a pattern of literal characters
\* and ".", which matches any character
RegexSearch(pat, text) ==
    \E start \in 1..(Len(text) + 1) :
       \A i \in DOMAIN pat :
          /\ start + i - 1 <= Len(text)
          /\ pat[i] = "." \/ Lower(pat[i]) = Lower(text[start + i - 1])

AllChoice == <<"A", "l", "l">>

\* the choices of the Filter by Video dropdown
VideoFilterInputs == {AllChoice} \cup {Basename(v.video_path) : v \in VideoInputs}

\* the Filter by Name textbox
NameFilterInputs == {<<>>, <<"b">>, <<".">>}

\* the rows filter_faces keeps
FilterRows(rows, video_filter, name_filter) ==
    LET Keep(r) ==
            /\ video_filter # AllChoice => r.video_filename = video_filter
            /\ TruthyText(name_filter) => RegexSearch(name_filter, r.name)
    IN  SelectSeq(rows, Keep)

\* video_filter.change / name_filter.change
FilterFaces(video_filter, name_filter) ==
    /\ face_display' = FilterRows(GetAllData(ReadView), video_filter, name_filter)
    /\ UNCHANGED <<db, tx, disk, pv, last, merge_state, wr, rw>>

\* submit_button.click: the grid process_video returns is bound to face_display
CommitAndRefresh ==
    /\ Commit
    /\ face_display' = GetAllData(db')
    /\ UNCHANGED <<merge_state, wr, rw>>

\* rename_button.click, up to the resolution of the selected copy
RenameResolve(face_path, name) ==
    /\ rw = NULL
    /\ IF ~TruthyText(face_path) \/ ~TruthyText(name)
       THEN /\ last' = Outcome("rename_face_wrapper",
                               "Please select a face and enter a new name.", NULL)
            \* two values are returned for four outputs
            /\ face_display' \in {face_display, GetAllData(ReadView)}
            /\ UNCHANGED rw
       ELSE LET r == GetFaceIdFromPath(ReadView, disk, face_path)
            IN  IF r.raised # ""
                THEN /\ last' = Outcome("rename_face_wrapper", r.raised, NULL)
                     /\ UNCHANGED <<rw, face_display>>
                ELSE /\ rw' = Some([face_id |-> r.face_id, name |-> name])
                     /\ UNCHANGED <<last, face_display>>
    /\ UNCHANGED <<db, tx, disk, pv, merge_state, wr>>

\* rename_button.click, from rename_face to the refreshed grid
RenameWrite ==
    /\ rw # NULL
    /\ RenameFace(rw[1].face_id, rw[1].name)
    /\ face_display' = GetAllData(db')
    /\ rw' = NULL
    /\ UNCHANGED <<merge_state, wr>>

Distinct(state) == {state[i] : i \in DOMAIN state}

\* merge_gallery.select
AddToMergeSelection(path) ==
    /\ LET r == GetFaceIdFromPath(ReadView, disk, path)
       IN  IF r.raised # ""
           THEN /\ last' = Outcome("add_to_merge_selection", r.raised, NULL)
                /\ UNCHANGED merge_state
           ELSE LET state == IF TruthyId(r.face_id) /\ r.face_id[1] \notin Distinct(merge_state)
                             THEN Append(merge_state, r.face_id[1])
                             ELSE merge_state
                IN  /\ merge_state' = state
                    /\ last' = Outcome("add_to_merge_selection",
                                       "Selected " \o ToString(Len(state)) \o " faces.",
                                       NULL)
    /\ UNCHANGED <<db, tx, disk, pv, face_display, wr, rw>>

\* merge_button.click
MergeFacesWrapper(name) ==
    /\ MergeFaces(Distinct(merge_state), name)
    /\ face_display' = GetAllData(db')
    /\ merge_state' = <<>>
    /\ UNCHANGED <<wr, rw>>

\* clear_merge_button.click
ClearMergeSelection ==
    /\ merge_state' = <<>>
    /\ last' = Outcome("clear_merge_selection", "Selection cleared.", NULL)
    /\ UNCHANGED <<db, tx, disk, pv, face_display, wr, rw>>

\* clear_db_button.click
ClearDbWrapper ==
    /\ ClearDatabase
    /\ face_display' = GetAllData(db')
    /\ UNCHANGED <<merge_state, wr, rw>>

\* a file of the output root is removed behind the application's back, the
\* case the resolver's except clause is there for
RemoveFile(p) ==
    /\ p \in disk
    /\ disk' = disk \ {p}
    /\ UNCHANGED <<db, tx, pv, last, face_display, merge_state, wr, rw>>

----------------------------------------------------------------------------
(* clear_database and merge_faces, statement by statement *)

IdleWr == [op |-> "", pc |-> "idle", count |-> 0]

\* cursor.execute("DELETE FROM faces"), which begins the transaction
ClearDeleteFaces ==
    /\ wr = IdleWr
    /\ tx = NULL
    /\ tx' = Some([db EXCEPT !.faces = DeleteFaces(@)])
    /\ wr' = [op |-> "clear_database", pc |-> "faces_deleted", count |-> 0]
    /\ UNCHANGED <<db, disk, pv, last, face_display, merge_state, rw>>

\* cursor.execute("DELETE FROM videos")
ClearDeleteVideos ==
    /\ wr.pc = "faces_deleted"
    /\ tx' = Some([tx[1] EXCEPT !.videos = DeleteVideos(@)])
    /\ wr' = [wr EXCEPT !.pc = "videos_deleted"]
    /\ UNCHANGED <<db, disk, pv, last, face_display, merge_state, rw>>

\* conn.commit() of clear_database, and the grid of clear_db_wrapper
ClearCommit ==
    /\ wr.pc = "videos_deleted"
    /\ db' = Committed(db, tx[1])
    /\ tx' = NULL
    /\ wr' = IdleWr
    /\ last' = Outcome("clear_database", "Database cleared.", NULL)
    /\ face_display' = GetAllData(db')
    /\ UNCHANGED <<disk, pv, merge_state, rw>>

\* the UPDATE of merge_faces, which begins the transaction
MergeExecute(face_ids, new_name) ==
    /\ wr = IdleWr
    /\ tx = NULL
    /\ ~MergeRejects(face_ids, new_name)
    /\ tx' = Some([db EXCEPT !.faces = MergeUpdate(@, face_ids, new_name)])
    /\ wr' = [op |-> "merge_faces", pc |-> "updated",
              count |-> RowCount(db.faces, face_ids)]
    /\ UNCHANGED <<db, disk, pv, last, face_display, merge_state, rw>>

\* conn.commit() of merge_faces
MergeCommit ==
    /\ wr.pc = "updated"
    /\ db' = Committed(db, tx[1])
    /\ tx' = NULL
    /\ wr' = IdleWr
    /\ last' = Outcome("merge_faces", MergeStatus(wr.count), Some(wr.count))
    /\ UNCHANGED <<disk, pv, face_display, merge_state, rw>>

----------------------------------------------------------------------------
(* Specification *)

Init ==
    /\ db = EmptyDb
    /\ tx = NULL
    /\ disk = {}
    /\ pv = IdlePv
    /\ last = Outcome("init_db", "", NULL)
    /\ face_display = <<>>
    /\ merge_state = <<>>
    /\ wr = IdleWr
    /\ rw = NULL

\* the functions of the registry, called with any arguments
Next ==
    \/ \E v \in VideoInputs, deposited \in ExtractorOutputs :
          Extract(v, deposited) /\ UNCHANGED session
    \/ \E now \in Dates : InsertVideo(now) /\ UNCHANGED session
    \/ \E listing \in Orders(GlobJpg(disk)) : Glob(listing) /\ UNCHANGED session
    \/ InsertFace /\ UNCHANGED session
    \/ ParseFail /\ UNCHANGED session
    \/ Commit /\ UNCHANGED session
    \/ \E face_id \in RenameIdInputs, new_name \in NameInputs :
          RenameFace(face_id, new_name) /\ UNCHANGED session
    \/ \E face_ids \in MergeInputs, new_name \in NameInputs :
          MergeFaces(face_ids, new_name) /\ UNCHANGED session
    \/ ClearDatabase /\ UNCHANGED session

Spec == Init /\ [][Next]_vars

\* the events of the curation tabs, with one extraction and a removable file
NextCuration ==
    \/ \E v \in VideoInputs : Extract(v, {FileA, FilePng}) /\ UNCHANGED session
    \/ \E now \in {1} : InsertVideo(now) /\ UNCHANGED session
    \/ \E listing \in Orders(GlobJpg(disk)) : Glob(listing) /\ UNCHANGED session
    \/ InsertFace /\ UNCHANGED session
    \/ CommitAndRefresh
    \/ \E face_path \in PathInputs, name \in {<<>>, <<"a">>} :
          RenameResolve(face_path, name)
    \/ RenameWrite
    \/ \E path \in PathInputs : AddToMergeSelection(path)
    \/ \E name \in {<<>>, <<"B">>} : MergeFacesWrapper(name)
    \/ ClearMergeSelection
    \/ ClearDbWrapper
    \/ RemoveFile(FileA)

SpecCuration == Init /\ [][NextCuration]_vars

\* the filters of the Face Viewer and the resolver, reading while an ingest,
\* a clear or a merge is under way
NextReads ==
    \/ \E v \in VideoInputs, deposited \in {{FileA, FilePng}, {FileB}} :
          Extract(v, deposited) /\ UNCHANGED session
    \/ \E now \in {1} : InsertVideo(now) /\ UNCHANGED session
    \/ \E listing \in Orders(GlobJpg(disk)) : Glob(listing) /\ UNCHANGED session
    \/ InsertFace /\ UNCHANGED session
    \/ CommitAndRefresh
    \/ ClearDeleteFaces
    \/ ClearDeleteVideos
    \/ ClearCommit
    \/ \E face_ids \in {{1}, {1, 2}} : MergeExecute(face_ids, <<"B">>)
    \/ MergeCommit
    \/ \E video_filter \in VideoFilterInputs, name_filter \in NameFilterInputs :
          FilterFaces(video_filter, name_filter)
    \/ AddToMergeSelection(Some(TmpCopy))

SpecReads == Init /\ [][NextReads]_vars

----------------------------------------------------------------------------
(* Properties of the ingest *)

FrameParses(image_path) == ParseInt(FrameToken(image_path)).ok

\* the listing of the running process_video holds a file whose frame token is
\* no integer
BadListing == \E j \in 1..Len(pv.face_images) : ~FrameParses(pv.face_images[j])

InTransaction == pv.pc \in {"inserted", "loop"}

\* the rows a step appended to a table
Appended(before, after) == SubSeq(after, Len(before) + 1, Len(after))

Ids(rows) == {rows[i].id : i \in DOMAIN rows}

\* C1: ingest is all-or-nothing. While process_video holds its transaction the
\* committed tables change only by the commit of a listing without an
\* unparseable frame token; with such a file in the listing, at any position,
\* the call ends in the ValueError and leaves the committed database as it was.
C1_IngestAllOrNothing ==
    [][/\ InTransaction /\ db' # db => Commit /\ ~BadListing
       /\ InTransaction /\ BadListing /\ pv'.pc = "idle" =>
             db' = db /\ last' = Outcome("process_video", "ValueError", NULL)
       /\ ParseFail => db' = db]_vars

\* C1 witness: one face row is pending in the transaction and the next listed
\* file does not parse
C1_Witness ==
    /\ pv.pc = "loop"
    /\ pv.i = 2
    /\ Len(pv.face_images) = 2
    /\ ~FrameParses(pv.face_images[2])
    /\ Len(tx[1].faces) = Len(db.faces) + 1
    /\ Len(tx[1].videos) = Len(db.videos) + 1

\* C2: a successful ingest commits exactly one video row and one face row per
\* discovered image, every one of them carrying the id of that video row.
C2_FacesOfTheCall ==
    [][Commit =>
         LET newVideos == Appended(db.videos, db'.videos)
             newFaces  == Appended(db.faces, db'.faces)
         IN  /\ Len(newVideos) = 1
             /\ newVideos[1].id \notin Ids(db.videos)
             /\ Len(newFaces) = Len(pv.face_images)
             /\ Len(newFaces) = Cardinality(GlobJpg(disk))
             /\ \A k \in DOMAIN newFaces :
                    /\ newFaces[k].video_id = newVideos[1].id
                    /\ newFaces[k].face_image_path = Abspath(pv.face_images[k])]_vars

\* C2 witness: an ingest returned with two faces for its video
C2_Witness ==
    /\ last = Outcome("process_video", "returned", NULL)
    /\ Len(db.videos) = 1
    /\ Len(db.faces) = 2
    /\ db.faces[1].video_id = db.videos[1].id
    /\ db.faces[2].video_id = db.videos[1].id

\* C3: in every committed state every face row's video_id is the id of a
\* video row.
C3_ReferentialIntegrity ==
    \A i \in DOMAIN db.faces : db.faces[i].video_id \in Ids(db.videos)

\* C3 witness: faces are present again after an earlier ingest was cleared
C3_Witness ==
    /\ db.faces # <<>>
    /\ db.seq.videos = 2
    /\ Ids(db.videos) = {2}
    /\ last.op \in {"rename_face", "merge_faces"}

\* C4: a clear leaves the query empty, and an ingest that follows it creates a
\* video whose id is greater than every video id assigned before; all faces
\* then presented belong to videos of the table, the new faces to the new one.
C4_ClearThenIngest ==
    [][/\ ClearDatabase => GetAllData(db') = <<>>
       /\ Commit =>
            LET newVideo == db'.videos[Len(db'.videos)]
                newFaces == Appended(db.faces, db'.faces)
            IN  /\ newVideo.id > db.seq.videos
                /\ \A v \in Ids(db.videos) : newVideo.id > v
                /\ \A k \in DOMAIN newFaces : newFaces[k].video_id = newVideo.id
                /\ Len(GetAllData(db')) = Len(db'.faces)
                /\ db.videos = <<>> =>
                      \A k \in DOMAIN db'.faces : db'.faces[k].video_id = newVideo.id]_vars

\* C4 witness: after a clear emptied the tables an ingest has committed a
\* video and its face
C4_Witness ==
    /\ last = Outcome("process_video", "returned", NULL)
    /\ db.seq.videos = 2
    /\ Len(db.videos) = 1
    /\ Len(GetAllData(db)) = 1

----------------------------------------------------------------------------
(* Properties of rename_face and merge_faces *)

\* the columns of a face row that the ingest sets and nothing may rewrite
Provenance(f) ==
    <<f.id, f.video_id, f.frame_number, f.timestamp_seconds, f.face_image_path,
      f.cluster_id>>

\* the names get_all_data shows for a face id
ShownNames(d, face_id) ==
    LET data == GetAllData(d)
    IN  {data[k].name : k \in {j \in DOMAIN data : data[j].face_id = face_id}}

\* C5: rename of an existing face with a non-empty name sets person_name of
\* that one row; the query then shows the name for the id; the row's other
\* columns, every other face row and every video row are left as they were.
C5_RenameSetsOneRow ==
    [][\A n \in FaceIdInputs, new_name \in NameInputs :
         RenameFace(Some(n), new_name) /\ new_name # <<>> /\ n \in Ids(db.faces) =>
            /\ DOMAIN db'.faces = DOMAIN db.faces
            /\ \A i \in DOMAIN db.faces :
                   IF db.faces[i].id = n
                   THEN db'.faces[i] = [db.faces[i] EXCEPT !.person_name = Some(new_name)]
                   ELSE db'.faces[i] = db.faces[i]
            /\ Cardinality({i \in DOMAIN db.faces : db'.faces[i] # db.faces[i]}) <= 1
            /\ ShownNames(db', n) = {new_name}
            /\ db'.videos = db.videos
            /\ db'.seq = db.seq]_vars

\* C5 witness: a rename hit one of two faces; the other still has no name
C5_Witness ==
    /\ last = Outcome("rename_face", RenameStatus(1), Some(1))
    /\ Len(db.faces) = 2
    /\ \E i, j \in DOMAIN db.faces :
          db.faces[i].person_name # NULL /\ db.faces[j].person_name = NULL

C7_ValidationBeforeWrite ==
    /\ [](\A i \in DOMAIN db.faces : db.faces[i].person_name # Some(<<>>))
    /\ [][/\ \A face_id \in RenameIdInputs :
                RenameFace(face_id, <<>>) =>
                   /\ db' = db
                   /\ last' = Outcome("rename_face",
                                      "Please select a face and enter a new name.", NULL)
          /\ \A face_ids \in MergeInputs, new_name \in NameInputs :
                MergeFaces(face_ids, new_name) /\ (face_ids = {} \/ new_name = <<>>) =>
                   /\ db' = db
                   /\ last' = Outcome("merge_faces",
                                      "Please select faces and enter a new name.", NULL)]_vars

\* C7 witness: a merge was refused while faces, one of them named, are present
C7_Witness ==
    /\ last = Outcome("merge_faces", "Please select faces and enter a new name.", NULL)
    /\ \E i \in DOMAIN db.faces : db.faces[i].person_name # NULL

\* C8: the row count a rename reports is 0 or 1: no face id is held by two
\* rows, in the committed tables and in the view of an open transaction.
C8_RenameCountAtMostOne ==
    /\ last.op = "rename_face" /\ last.rowcount # NULL => last.rowcount[1] \in {0, 1}
    /\ \A n \in FaceIdInputs :
          /\ RowCount(db.faces, {n}) \in {0, 1}
          /\ tx # NULL => RowCount(tx[1].faces, {n}) \in {0, 1}

\* C8 witness: a rename reported one row while the same image is held by the
\* faces of two videos
C8_Witness ==
    /\ last.op = "rename_face"
    /\ last.rowcount = Some(1)
    /\ Len(db.faces) = 2
    /\ db.faces[1].face_image_path = db.faces[2].face_image_path
    /\ db.faces[1].video_id # db.faces[2].video_id

\* C9: merge with a non-empty selection and name sets person_name of every
\* existing selected row in the one step, so the query shows the name for each
\* of them, and leaves the other rows alone; the same merge applied to the
\* result changes nothing.
C9_MergeSetsAllAndIsIdempotent ==
    [][\A face_ids \in MergeInputs, new_name \in NameInputs :
         MergeFaces(face_ids, new_name) /\ face_ids # {} /\ new_name # <<>> =>
            /\ DOMAIN db'.faces = DOMAIN db.faces
            /\ \A i \in DOMAIN db.faces :
                   IF db.faces[i].id \in face_ids
                   THEN /\ db'.faces[i].person_name = Some(new_name)
                        /\ ShownNames(db', db.faces[i].id) = {new_name}
                   ELSE db'.faces[i] = db.faces[i]
            /\ last'.rowcount = Some(Cardinality(face_ids \cap Ids(db.faces)))
            /\ [db' EXCEPT !.faces = MergeUpdate(@, face_ids, new_name)] = db'
            /\ RowCount(db'.faces, face_ids) = last'.rowcount[1]]_vars

\* C9 witness: a merge named two faces that had different clusters
C9_Witness ==
    /\ last = Outcome("merge_faces", MergeStatus(2), Some(2))
    /\ Len(db.faces) = 2
    /\ db.faces[1].person_name # NULL
    /\ db.faces[1].person_name = db.faces[2].person_name

\* C10: as long as a row exists, no step changes a face's id, video_id,
\* frame_number, timestamp_seconds, face_image_path or cluster_id, nor any
\* column of a video; rename and merge leave the set of rows as it is.
C10_ProvenanceImmutable ==
    [][/\ \A i \in DOMAIN db.faces, j \in DOMAIN db'.faces :
             db.faces[i].id = db'.faces[j].id =>
                Provenance(db.faces[i]) = Provenance(db'.faces[j])
       /\ \A i \in DOMAIN db.videos, j \in DOMAIN db'.videos :
             db.videos[i].id = db'.videos[j].id => db.videos[i] = db'.videos[j]
       /\ last'.op \in {"rename_face", "merge_faces"} /\ last' # last =>
             /\ db'.videos = db.videos
             /\ db'.seq = db.seq
             /\ Len(db'.faces) = Len(db.faces)
             /\ \A i \in DOMAIN db.faces :
                   Provenance(db'.faces[i]) = Provenance(db.faces[i])]_vars

\* C10 witness: two faces share a name given by a merge and keep different
\* cluster ids
C10_Witness ==
    /\ last.op = "merge_faces"
    /\ \E i, j \in DOMAIN db.faces :
          /\ db.faces[i].person_name # NULL
          /\ db.faces[i].person_name = db.faces[j].person_name
          /\ db.faces[i].cluster_id = 0
          /\ db.faces[j].cluster_id = -1

----------------------------------------------------------------------------
(* Properties of the derived columns and of the order of the steps *)

\* the video row that owns a face
VideoOf(d, f) == CHOOSE v \in {d.videos[i] : i \in DOMAIN d.videos} : v.id = f.video_id

AllDigits(token) == token # <<>> /\ \A i \in DOMAIN token : IsDigit(token[i])

\* C14: in the committed tables and in the view of an open transaction, the
\* timestamp of a face times the fps of its video is its frame number when
\* that fps is positive, and the timestamp is 0 when the fps is not.
C14_TimestampIsFrameOverFps ==
    \A d \in {db} \cup {tx[k] : k \in DOMAIN tx} :
       \A i \in DOMAIN d.faces :
          LET f == d.faces[i]
              v == VideoOf(d, f)
              t == f.timestamp_seconds
          IN  IF v.fps > 0
              THEN t[2] > 0 /\ t[1] * v.fps = f.frame_number * t[2]
              ELSE t[1] = 0

\* C14 witness: a face of frame 1 at 2 fps stands at half a second, and a face
\* of a video of unknown fps at 0
C14_Witness ==
    /\ Len(db.faces) = 2
    /\ Len(db.videos) = 2
    /\ \E i, j \in DOMAIN db.faces :
          /\ VideoOf(db, db.faces[i]).fps = 2
          /\ db.faces[i].frame_number = 1
          /\ db.faces[i].timestamp_seconds = <<1, 2>>
          /\ VideoOf(db, db.faces[j]).fps = 0
          /\ db.faces[j].frame_number = 1
          /\ db.faces[j].timestamp_seconds[1] = 0

\* C15: the ingest stops only at a frame token that is no integer, never at a
\* cluster token; the face inserted for an image has the cluster token's
\* number as cluster_id when the token is a digit string, and -1 when the
\* token holds no digit string.
C15_ClusterFallback ==
    [][/\ ParseFail => ~FrameParses(pv.face_images[pv.i])
       /\ InsertFace =>
            LET image == pv.face_images[pv.i]
                token == ClusterToken(image)
                f     == tx'[1].faces[Len(tx'[1].faces)]
            IN  /\ Len(tx'[1].faces) = Len(tx[1].faces) + 1
                /\ f.face_image_path = Abspath(image)
                /\ IF AllDigits(token)
                   THEN f.cluster_id >= 0 /\ IntToStr(f.cluster_id) = token
                   ELSE f.cluster_id = -1
       /\ Commit =>
            \A k \in DOMAIN pv.face_images :
               ~AllDigits(ClusterToken(pv.face_images[k])) =>
                  \E i \in DOMAIN db'.faces :
                     /\ db'.faces[i].video_id = pv.video_id
                     /\ db'.faces[i].face_image_path = Abspath(pv.face_images[k])
                     /\ db'.faces[i].cluster_id = -1]_vars

\* C15 witness: an ingest committed a face of cluster 0 and a face whose
\* cluster token was no integer
C15_Witness ==
    /\ last = Outcome("process_video", "returned", NULL)
    /\ \E i, j \in DOMAIN db.faces :
          /\ db.faces[i].cluster_id = 0
          /\ db.faces[j].cluster_id = -1
          /\ db.faces[i].video_id = db.faces[j].video_id

\* the (upload_date, timestamp_seconds, id) key of one face is not after the
\* key of another
ChronoLeq(d, f, g) ==
    LET u  == VideoOf(d, f).upload_date
        w  == VideoOf(d, g).upload_date
        t  == f.timestamp_seconds
        r  == g.timestamp_seconds
    IN  \/ u < w
        \/ u = w /\ t[1] * r[2] < r[1] * t[2]
        \/ u = w /\ t[1] * r[2] = r[1] * t[2] /\ f.id <= g.id

FaceById(d, id) == CHOOSE f \in {d.faces[i] : i \in DOMAIN d.faces} : f.id = id

\* C16: the rows get_all_data hands to the display are in the order of
\* (upload_date, timestamp_seconds, id).
C16_ChronologicalOrder ==
    LET data == GetAllData(db)
    IN  \A k, l \in DOMAIN data :
           k < l => ChronoLeq(db, FaceById(db, data[k].face_id),
                              FaceById(db, data[l].face_id))

\* C18: whenever a write of process_video is pending in the transaction, the
\* extractor has returned and the face files have been enumerated.
C18_NoWriteBeforeEnumeration == tx # NULL => pv.pc = "loop"

\* C20: an ingest commits one face per .jpg under the output root at the time
\* of the listing; the root only grows, also over a clear, so the faces of a
\* later video cover the images of every earlier extraction.
C20_FacesCoverTheSharedRoot ==
    [][/\ disk \subseteq disk'
       /\ ClearDatabase => disk' = disk
       /\ Commit =>
            LET newFaces == Appended(db.faces, db'.faces)
            IN  /\ {newFaces[k].face_image_path : k \in DOMAIN newFaces}
                      = {Abspath(p) : p \in GlobJpg(disk)}
                /\ Len(newFaces) = Cardinality(GlobJpg(disk))]_vars

\* C20 witness: the second ingest recorded again the image its predecessor had
\* recorded
C20_Witness ==
    /\ last = Outcome("process_video", "returned", NULL)
    /\ Len(db.videos) = 2
    /\ \E i, j \in DOMAIN db.faces :
          /\ db.faces[i].video_id = db.videos[1].id
          /\ db.faces[j].video_id = db.videos[2].id
          /\ db.faces[i].face_image_path = db.faces[j].face_image_path

----------------------------------------------------------------------------
(* Properties of the resolver, the query and the reads *)

\* the stored image files with the bytes of the copy at path: only the byte
\* copy of FileA equals a stored file, and only while that file is there
SameContent(files, path) ==
    IF path = Some(TmpCopy) /\ FileA \in files THEN {Abspath(FileA)} ELSE {}

\* the ids of the rows get_all_data returns for the given image paths
IdsOfPaths(d, paths) ==
    LET data == GetAllData(d)
    IN  {data[k].face_id : k \in {j \in DOMAIN data : data[j].face_image_path \in paths}}

\* C11: the resolver returns the id of a face whose stored file has the bytes
\* of the payload when there is one, and None when there is none: for a
\* re-encoded copy, a payload that is gone, a stored file that is gone. It
\* never raises and leaves tables and files as they were.
C11_Resolve ==
    [][/\ \A path \in PathInputs :
            AddToMergeSelection(path) =>
               LET matches == IdsOfPaths(db, SameContent(disk, path))
               IN  /\ last'.op = "add_to_merge_selection"
                   /\ last'.result \notin {"FileNotFoundError", "TypeError"}
                   /\ <<db', tx', disk'>> = <<db, tx, disk>>
                   /\ matches # {} =>
                        \E id \in matches :
                           Distinct(merge_state') = Distinct(merge_state) \cup {id}
                   /\ matches = {} => merge_state' = merge_state
       /\ \A path \in PathInputs \ {NULL}, name \in NameInputs \ {<<>>} :
            RenameResolve(path, name) =>
               LET matches == IdsOfPaths(db, SameContent(disk, path))
               IN  /\ rw' # NULL
                   /\ <<db', tx', disk'>> = <<db, tx, disk>>
                   /\ matches # {} => rw'[1].face_id # NULL /\ rw'[1].face_id[1] \in matches
                   /\ matches = {} => rw'[1].face_id = NULL]_vars

\* C11 witness: a copy was resolved to face 1; then the stored file went and
\* the resolution for the rename found no face
C11_Witness ==
    /\ merge_state = <<1>>
    /\ 1 \in Ids(db.faces)
    /\ FileA \notin disk
    /\ rw # NULL
    /\ rw[1].face_id = NULL

\* C12: the name of every row filter_faces shows is the person_name of the
\* face when the column is set, else "Cluster " and the cluster_id of the face;
\* the read writes nothing, and the column never holds the derived label.
C12_DisplayName ==
    /\ [](\A d \in {db} \cup {tx[k] : k \in DOMAIN tx} :
             \A i \in DOMAIN d.faces :
                d.faces[i].person_name \in {NULL, Some(<<"a">>), Some(<<"B">>)})
    /\ [][\A video_filter \in VideoFilterInputs, name_filter \in NameFilterInputs :
            FilterFaces(video_filter, name_filter) =>
               /\ db' = db
               /\ \A k \in DOMAIN face_display' :
                     LET f == FaceById(db, face_display'[k].face_id)
                         n == face_display'[k].name
                     IN  IF f.person_name # NULL THEN n = f.person_name[1]
                         ELSE /\ f.cluster_id \in {-1, 0}
                              /\ f.cluster_id = -1 =>
                                   n = <<"C", "l", "u", "s", "t", "e", "r", " ", "-", "1">>
                              /\ f.cluster_id = 0 =>
                                   n = <<"C", "l", "u", "s", "t", "e", "r", " ", "0">>]_vars

\* C12 witness: the display shows a named face next to an unclustered one
C12_Witness ==
    /\ Len(face_display) = 2
    /\ \E k, l \in DOMAIN face_display :
          /\ face_display[k].name = <<"B">>
          /\ face_display[l].name = <<"C", "l", "u", "s", "t", "e", "r", " ", "-", "1">>
          /\ FaceById(db, face_display[k].face_id).cluster_id = -1
          /\ FaceById(db, face_display[l].face_id).person_name = NULL

\* text contains sub as a literal substring, letter case apart
ContainsLiteral(text, sub) ==
    \E start \in 1..(Len(text) + 1) :
       \A i \in DOMAIN sub :
          /\ start + i - 1 <= Len(text)
          /\ Lower(sub[i]) = Lower(text[start + i - 1])

\* C13: with the video filter given (Some(filename)) or not (NULL) and the
\* name filter given (non-empty) or not, filter_faces shows exactly the faces
\* of the video of that filename whose name contains the name filter as a
\* literal, case-insensitive substring.
C13_QueryFilters ==
    [][\A video \in {NULL} \cup {Some(w) : w \in VideoFilterInputs},
          name_filter \in NameFilterInputs :
          FilterFaces(IF video = NULL THEN AllChoice ELSE video[1], name_filter) =>
             LET Expected(r) ==
                    /\ video # NULL => r.video_filename = video[1]
                    /\ name_filter # <<>> => ContainsLiteral(r.name, name_filter)
             IN  face_display' = SelectSeq(GetAllData(db), Expected)]_vars

\* C17: a read taken while an ingest, a clear or a merge holds its transaction
\* shows no face of the ingest, every face the clear is deleting, and no name
\* the merge is setting; the resolver returns no id of a pending row.
C17_ReadsSeeCommittedOnly ==
    [][/\ \A video_filter \in VideoFilterInputs, name_filter \in NameFilterInputs :
            FilterFaces(video_filter, name_filter) =>
               /\ db' = db /\ tx' = tx
               /\ InTransaction =>
                    \A k \in DOMAIN face_display' :
                       face_display'[k].face_id \notin Ids(tx[1].faces) \ Ids(db.faces)
               /\ wr.op = "clear_database" /\ video_filter = AllChoice /\ name_filter = <<>> =>
                    /\ Len(face_display') = Len(db.faces)
                    /\ {face_display'[k].face_id : k \in DOMAIN face_display'} = Ids(db.faces)
               /\ wr.op = "merge_faces" =>
                    \A k \in DOMAIN face_display' :
                       face_display'[k].name \in
                          {DisplayName(db.faces[i]) : i \in DOMAIN db.faces}
       /\ AddToMergeSelection(Some(TmpCopy)) =>
            /\ db' = db /\ tx' = tx
            /\ Distinct(merge_state') \subseteq Distinct(merge_state) \cup Ids(db.faces)]_vars

\* C17 witness: the clear has deleted the faces in its transaction and the
\* display, filtered meanwhile, shows one of the two committed faces
C17_Witness ==
    /\ wr.pc = "faces_deleted"
    /\ tx[1].faces = <<>>
    /\ tx[1].videos # <<>>
    /\ Len(db.faces) = 2
    /\ Len(face_display) = 1

\* C19: an id at or below the highest id ever committed that designates no
\* row never designates one later, every committed id is above all earlier
\* ones, the merge selection holds only such ids, and a merge or a rename
\* issued with ids of deleted faces changes no row.
C19_IdsNeverReused ==
    /\ [](/\ Distinct(merge_state) \subseteq 1..db.seq.faces
          /\ Ids(db.faces) \subseteq 1..db.seq.faces
          /\ Ids(db.videos) \subseteq 1..db.seq.videos)
    /\ [][/\ db'.seq.faces >= db.seq.faces
          /\ db'.seq.videos >= db.seq.videos
          /\ \A n \in 1..db.seq.faces :
                n \notin Ids(db.faces) => n \notin Ids(db'.faces)
          /\ \A n \in 1..db.seq.videos :
                n \notin Ids(db.videos) => n \notin Ids(db'.videos)
          /\ \A name \in NameInputs :
                MergeFacesWrapper(name) /\ Distinct(merge_state) \cap Ids(db.faces) = {} =>
                   db'.faces = db.faces
          /\ RenameWrite /\ rw[1].face_id # NULL /\ rw[1].face_id[1] \notin Ids(db.faces) =>
                db'.faces = db.faces /\ last'.rowcount = Some(0)]_vars

\* C19 witness: the selection made before the clear was merged after the next
\* ingest and touched no row of it
C19_Witness ==
    /\ last = Outcome("merge_faces", MergeStatus(0), Some(0))
    /\ Ids(db.faces) = {2}
    /\ db.faces[1].person_name = NULL
    /\ db.seq.faces = 2

====
